---- MODULE Spec2Model ----
(***************************************************************************)
(* Lexer and recursive-descent Parser of src/src/compiler.cpp.             *)
(*                                                                         *)
(* Characters are one-character strings; the ASCII characters that TLA+   *)
(* cannot write inside a string are named: "VT" = 0x0B, "SOH" = 0x01,    *)
(* "GRAVE" = 0x60.                                                         *)
(* A std::string is a sequence of characters, so a lexeme is a sequence.   *)
(* All inputs are 7-bit ASCII, where the <cctype> predicates are defined.  *)
(***************************************************************************)
EXTENDS Integers, Sequences, FiniteSets, TLC

\* ------------------------------------------------------------------ bounds
MaxLen == 4        \* longest source text handed to a Lexer
MaxCalls == 2      \* tokenize() invocations observed per behaviour
MaxTokens == 4     \* longest arbitrary token sequence handed to a Parser
MaxBody == 3       \* longest arbitrary token sequence after `int f ( ) {`
MaxParses == 2     \* parse() invocations observed per behaviour

\* ------------------------------------------------- <cctype>, "C" locale
Lower == {"a","b","c","d","e","f","g","h","i","j","k","l","m",
          "n","o","p","q","r","s","t","u","v","w","x","y","z"}
Upper == {"A","B","C","D","E","F","G","H","I","J","K","L","M",
          "N","O","P","Q","R","S","T","U","V","W","X","Y","Z"}
Digits == {"0","1","2","3","4","5","6","7","8","9"}
Spaces == {" ", "\t", "\n", "\r", "\f", "VT"}
Graphic == {"!","\"","#","$","%","&","'","(",")","*","+",",","-",".","/",
            ":",";","<","=",">","?","@","[","\\","]","^","_","GRAVE",
            "{","|","}","~"}

\* variant: the blank is not classified as whitespace
isspace_NoBlank(c) == c \in Spaces \ {" "}
isspace(c) == c \in Spaces
isalpha(c) == c \in Lower \cup Upper
isdigit(c) == c \in Digits
isalnum(c) == isalpha(c) \/ isdigit(c)
ispunct(c) == c \in Graphic

\* ---------------------------------------------------------------- Lexer
Keywords == { <<"i","n","t">>, <<"c","h","a","r">>, <<"f","l","o","a","t">>,
              <<"d","o","u","b","l","e">>, <<"v","o","i","d">>, <<"i","f">>,
              <<"e","l","s","e">>, <<"w","h","i","l","e">>, <<"f","o","r">>,
              <<"r","e","t","u","r","n">>, <<"p","r","i","n","t","f">> }

\* variant: a word that begins with a keyword is taken for a keyword
isKeyword_Prefix(word) ==
    \E kw \in Keywords : Len(kw) <= Len(word) /\ SubSeq(word, 1, Len(kw)) = kw
isKeyword(word) == word \in Keywords

Token(t, v, l, c) == [type |-> t, value |-> v, line |-> l, column |-> c]

\* the characters the source texts are drawn from
Alphabet == {"i", "f", "_", "1", ".", "+", ";", " ", "\n", "SOH"}

\* the source texts of length n
TextsOfLen(n) == [1..n -> Alphabet]

\* input[p] of the code, whose positions count from 0
At(s, p) == s[p + 1]

\* variant: the identifier loop does not accept `_`
IdentChar_NoUnderscore(c) == isalnum(c)

IdentChar(c) == isalnum(c) \/ c = "_"
\* variant: the number loop stops at a decimal point
NumberChar_NoDot(c) == isdigit(c)
NumberChar(c) == isdigit(c) \/ c = "."

\* position at which the inner while loop of the identifier arm stops
RECURSIVE IdentEnd(_, _)
IdentEnd(s, p) ==
    IF p < Len(s) /\ IdentChar(At(s, p)) THEN IdentEnd(s, p + 1) ELSE p

\* position at which the inner while loop of the number arm stops
RECURSIVE NumberEnd(_, _)
NumberEnd(s, p) ==
    IF p < Len(s) /\ NumberChar(At(s, p)) THEN NumberEnd(s, p + 1) ELSE p

\* variant: the first character of the run is not accumulated
Lexeme_DropFirst(s, p, e) == SubSeq(s, p + 2, e)

\* the characters accumulated by `identifier += input[position]` (resp.
\* `number += input[position]`) while position runs from p to e
Lexeme(s, p, e) == SubSeq(s, p + 1, e)

\* line and column after the whitespace character c has been consumed
NextLine(c, ln) == IF c = "\n" THEN ln + 1 ELSE ln
\* variant: a newline does not reset the column
NextColumn_NoReset(c, col) == col + 1
NextColumn(c, col) == IF c = "\n" THEN 1 ELSE col + 1

IdentType(word) == IF isKeyword(word) THEN "KEYWORD" ELSE "IDENTIFIER"

OpPunctType(c) == IF ispunct(c) THEN "PUNCTUATION" ELSE "OPERATOR"

\* the lexemes of a token sequence joined with single spaces
RECURSIVE JoinLexemes(_)
JoinLexemes(toks) ==
    IF toks = <<>> THEN <<>>
    ELSE IF Len(toks) = 1 THEN toks[1].value
    ELSE toks[1].value \o <<" ">> \o JoinLexemes(Tail(toks))

\* --------------------------------------------------------------- Parser
Node(t, v, ch) == [type |-> t, value |-> v, children |-> ch]

\* std::make_shared<ASTNode>() filled in as n: the k-th node created
MakeShared(n, k) ==
    [type |-> n.type, value |-> n.value, children |-> n.children, id |-> k]

\* the empty std::shared_ptr<ASTNode>
nullptr == Node("nullptr", <<>>, <<>>)

\* variant: the child is appended twice
AddChild_Twice(n, c) == [n EXCEPT !.children = Append(Append(@, c), c)]

\* variant: the child is not appended
AddChild_Dropped(n, c) == n

AddChild(n, c) == [n EXCEPT !.children = Append(@, c)]

LPAREN == <<"(">>
RPAREN == <<")">>
LBRACE == <<"{">>
RBRACE == <<"}">>
SEMI == <<";">>
KW_int == <<"i","n","t">>
KW_if == <<"i","f">>
KW_else == <<"e","l","s","e">>
KW_return == <<"r","e","t","u","r","n">>

Kw(v) == Token("KEYWORD", v, 1, 1)
Id(v) == Token("IDENTIFIER", v, 1, 1)
Num(v) == Token("NUMBER", v, 1, 1)
Op(v) == Token("OPERATOR", v, 1, 1)
Pu(v) == Token("PUNCTUATION", v, 1, 1)

\* the tokens the arbitrary token sequences are drawn from
TokenAlphabet == { Kw(KW_int), Kw(KW_if), Kw(KW_return), Id(<<"f">>),
                   Num(<<"0">>), Pu(LPAREN), Pu(RPAREN), Pu(LBRACE),
                   Pu(RBRACE), Pu(SEMI) }

\* the sequences of length n over S
SeqsOfLen(S, n) == [1..n -> S]

SeqsUpTo(S, n) == UNION { SeqsOfLen(S, k) : k \in 0..n }

Prefixes(s) == { SubSeq(s, 1, k) : k \in 0..Len(s) }

\* Keyword Identifier ( ) { return <expression> ; }
ReturnExpressions ==
    SeqsUpTo({ Num(<<"0">>), Id(<<"f">>), Pu(LPAREN), Pu(RPAREN) }, 2)
        \ { <<>> }

FunctionDefinition(kw, id, e) ==
    <<kw, id, Pu(LPAREN), Pu(RPAREN), Pu(LBRACE), Kw(KW_return)>>
        \o e \o <<Pu(SEMI), Pu(RBRACE)>>

FunctionDefinitions ==
    { FunctionDefinition(kw, Id(<<"f">>), e) :
        kw \in { Kw(KW_int), Kw(KW_if), Kw(KW_return) },
        e \in ReturnExpressions }

\* the token sequence of a program shaped like the one in main()
SampleProgram ==
    << Kw(KW_int), Id(<<"f">>), Pu(LPAREN), Pu(RPAREN), Pu(LBRACE),
       Kw(KW_int), Id(<<"x">>), Op(<<"=">>), Num(<<"0">>), Pu(SEMI),
       Kw(KW_if), Pu(LPAREN), Id(<<"x">>), Pu(RPAREN), Pu(LBRACE),
       Id(<<"f">>), Pu(LPAREN), Pu(RPAREN), Pu(SEMI), Pu(RBRACE),
       Kw(KW_else), Pu(LBRACE), Kw(KW_return), Pu(SEMI), Pu(RBRACE),
       Kw(KW_return), Num(<<"0">>), Pu(SEMI), Pu(RBRACE) >>

\* the start of a function definition, up to the `{` of its body
FunctionHeader ==
    <<Kw(KW_int), Id(<<"f">>), Pu(LPAREN), Pu(RPAREN), Pu(LBRACE)>>

\* int f ( int x ) { return x ; }
FunctionWithParameter ==
    << Kw(KW_int), Id(<<"f">>), Pu(LPAREN), Kw(KW_int), Id(<<"x">>),
       Pu(RPAREN), Pu(LBRACE), Kw(KW_return), Id(<<"x">>), Pu(SEMI),
       Pu(RBRACE) >>

\* int f ( ( ) ) { }
FunctionWithNestedParentheses ==
    << Kw(KW_int), Id(<<"f">>), Pu(LPAREN), Pu(LPAREN), Pu(RPAREN),
       Pu(RPAREN), Pu(LBRACE), Pu(RBRACE) >>

\* int x int f ( ) { ; }
DeclarationThenFunction ==
    << Kw(KW_int), Id(<<"x">>), Kw(KW_int), Id(<<"f">>), Pu(LPAREN),
       Pu(RPAREN), Pu(LBRACE), Pu(SEMI), Pu(RBRACE) >>

\* the token sequences written out in full: the function definitions and
\* the sample program, each with all its prefixes
SampleSeqs ==
    UNION { Prefixes(d) : d \in FunctionDefinitions }
        \cup Prefixes(SampleProgram)
        \cup Prefixes(FunctionWithParameter)
        \cup Prefixes(FunctionWithNestedParentheses)
        \cup Prefixes(DeclarationThenFunction)

\* tokens[c] of the code, whose indices count from 0
\* what a read outside the vector yields in the model; no claim relies on
\* its contents
PastTheEnd == Token("", <<>>, 0, 0)

TokAt(toks, c) == IF c < Len(toks) THEN toks[c + 1] ELSE PastTheEnd

IsType(toks, c, t) == c < Len(toks) /\ TokAt(toks, c).type = t
IsValue(toks, c, v) == c < Len(toks) /\ TokAt(toks, c).value = v

\* variant: the last token already counts as the end of the sequence
AtEnd_OffByOne(toks, c) == c >= Len(toks) - 1

\* `current >= tokens.size()`
AtEnd(toks, c) == c >= Len(toks)

\* variant: the index one past the last token still counts as inside
InRange_Inclusive(toks, c) == c <= Len(toks)

\* `current < tokens.size()`
InRange(toks, c) == c < Len(toks)

\* the index read by `current < tokens.size() && tokens[current]...`
ReadWhenInRange(toks, c) == IF InRange(toks, c) THEN {c} ELSE {}

\* the index read by `current >= tokens.size() || tokens[current]...`
ReadUnlessAtEnd(toks, c) == IF AtEnd(toks, c) THEN {} ELSE {c}

\* a stack frame: the running function, its position, the node it is
\* building, its local `name`, and the cursor at the start of the current
\* iteration of its loop
Frame(fn, pc, node) ==
    [fn |-> fn, pc |-> pc, node |-> node, name |-> <<>>, mark |-> 0]

\* index at which a raw expression span that begins at c ends: the first
\* `;` or `}` at or after c, or the end of the sequence
RECURSIVE ExprEnd(_, _)
ExprEnd(toks, c) ==
    IF c < Len(toks) /\ TokAt(toks, c).value \notin {SEMI, RBRACE}
      THEN ExprEnd(toks, c + 1) ELSE c

\* index of the first `)` at or after c, or the end of the sequence
RECURSIVE CondEnd(_, _)
CondEnd(toks, c) ==
    IF c < Len(toks) /\ TokAt(toks, c).value # RPAREN
      THEN CondEnd(toks, c + 1) ELSE c

\* the tokens toks[from .. to-1] (indices from 0)
Span(toks, from, to) == SubSeq(toks, from + 1, to)

\* the cursor after an optional token with lexeme v at c
SkipIf(toks, c, v) == IF IsValue(toks, c, v) THEN c + 1 ELSE c

VARIABLES
    input,      \* Lexer::input
    position,   \* Lexer::position
    line,       \* Lexer::line
    column,     \* Lexer::column
    out,        \* the local vector `tokens` of the running tokenize()
    lpc,        \* "ready": no call running; "loop": inside tokenize()
    callStart,  \* position when the running call began
    skipped,    \* whitespace characters the running call has skipped
    starts,     \* offset of the first character of each token of `out`
    calls,      \* the completed tokenize() calls, in order
    tokens,     \* Parser::tokens
    current,    \* Parser::current
    stack,      \* the call stack of the running parse(), innermost last
    ret,        \* the value returned by the call that returned last
    parses,     \* the trees returned by the completed parse() calls
    allocated,  \* the number of nodes std::make_shared has created
    reads       \* the indices at which parseDeclaration, parseBlock and
                \* parseStatement have read `tokens`

lexVars == <<input, position, line, column, out, lpc, callStart, skipped,
             starts, calls>>

parseVars == <<tokens, current, stack, ret, parses, allocated, reads>>

vars == <<lexVars, parseVars>>

\* Lexer(source): the constructor
Construct(src) ==
    /\ input' = src
    /\ position' = 0
    /\ line' = 1
    /\ column' = 1

InitLex ==
    /\ \E n \in 0..MaxLen : input \in TextsOfLen(n)
    /\ position = 0
    /\ line = 1
    /\ column = 1
    /\ out = <<>>
    /\ lpc = "ready"
    /\ callStart = 0
    /\ skipped = 0
    /\ starts = <<>>
    /\ calls = <<>>
    /\ tokens = <<>>
    /\ current = 0
    /\ stack = <<>>
    /\ ret = nullptr
    /\ parses = <<>>
    /\ allocated = 0
    /\ reads = {}

\* tokenize() is entered: the local vector is empty
TokenizeCall ==
    /\ lpc = "ready"
    /\ Len(calls) < MaxCalls
    /\ lpc' = "loop"
    /\ out' = <<>>
    /\ starts' = <<>>
    /\ skipped' = 0
    /\ callStart' = position
    /\ UNCHANGED <<input, position, line, column, calls>>
    /\ UNCHANGED parseVars

\* one iteration of the main loop taking the whitespace arm
LexWhitespace ==
    /\ lpc = "loop"
    /\ position < Len(input)
    /\ LET currentChar == At(input, position) IN
        /\ isspace(currentChar)
        /\ line' = NextLine(currentChar, line)
        /\ column' = NextColumn(currentChar, column)
    /\ position' = position + 1
    /\ skipped' = skipped + 1
    /\ UNCHANGED <<input, out, lpc, callStart, starts, calls>>
    /\ UNCHANGED parseVars

\* one iteration taking the identifier / keyword arm
LexIdentifier ==
    /\ lpc = "loop"
    /\ position < Len(input)
    /\ LET currentChar == At(input, position)
           end == IdentEnd(input, position)
           identifier == Lexeme(input, position, end)
           start_column == column
       IN
        /\ ~isspace(currentChar)
        /\ isalpha(currentChar) \/ currentChar = "_"
        /\ position' = end
        /\ column' = column + (end - position)
        /\ out' = Append(out, Token(IdentType(identifier), identifier,
                                    line, start_column))
    /\ starts' = Append(starts, position)
    /\ UNCHANGED <<input, line, lpc, callStart, skipped, calls>>
    /\ UNCHANGED parseVars

\* one iteration taking the number arm
LexNumber ==
    /\ lpc = "loop"
    /\ position < Len(input)
    /\ LET currentChar == At(input, position)
           end == NumberEnd(input, position)
           number == Lexeme(input, position, end)
           start_column == column
       IN
        /\ ~isspace(currentChar)
        /\ ~(isalpha(currentChar) \/ currentChar = "_")
        /\ isdigit(currentChar)
        /\ position' = end
        /\ column' = column + (end - position)
        /\ out' = Append(out, Token("NUMBER", number, line, start_column))
    /\ starts' = Append(starts, position)
    /\ UNCHANGED <<input, line, lpc, callStart, skipped, calls>>
    /\ UNCHANGED parseVars

\* one iteration taking the operator / punctuation arm
LexOpPunct ==
    /\ lpc = "loop"
    /\ position < Len(input)
    /\ LET currentChar == At(input, position)
           op_punct == <<currentChar>>
       IN
        /\ ~isspace(currentChar)
        /\ ~(isalpha(currentChar) \/ currentChar = "_")
        /\ ~isdigit(currentChar)
        /\ out' = Append(out, Token(OpPunctType(currentChar), op_punct,
                                    line, column))
    /\ position' = position + 1
    /\ column' = column + 1
    /\ starts' = Append(starts, position)
    /\ UNCHANGED <<input, line, lpc, callStart, skipped, calls>>
    /\ UNCHANGED parseVars

\* the loop condition fails: tokenize() returns its vector
LexReturn ==
    /\ lpc = "loop"
    /\ ~(position < Len(input))
    /\ calls' = Append(calls, [input |-> input, start |-> callStart,
                               tokens |-> out, starts |-> starts,
                               skipped |-> skipped])
    /\ lpc' = "ready"
    /\ out' = <<>>
    /\ starts' = <<>>
    /\ UNCHANGED <<input, position, line, column, callStart, skipped>>
    /\ UNCHANGED parseVars

\* a caller builds a second Lexer over the joined lexemes of the first result
Relex ==
    /\ lpc = "ready"
    /\ Len(calls) = 1
    /\ Construct(JoinLexemes(calls[1].tokens))
    /\ UNCHANGED <<out, lpc, callStart, skipped, starts, calls>>
    /\ UNCHANGED parseVars

NextLex ==
    \/ TokenizeCall
    \/ LexWhitespace
    \/ LexIdentifier
    \/ LexNumber
    \/ LexOpPunct
    \/ LexReturn
    \/ Relex

SpecLex == InitLex /\ [][NextLex]_vars

\* the characters of the source texts whose scan is followed to its end
ScanAlphabet == {"i", "_", "1", "+", " "}

InitScan ==
    /\ \E n \in 0..MaxLen : input \in [1..n -> ScanAlphabet]
    /\ position = 0
    /\ line = 1
    /\ column = 1
    /\ out = <<>>
    /\ lpc = "ready"
    /\ callStart = 0
    /\ skipped = 0
    /\ starts = <<>>
    /\ calls = <<>>
    /\ tokens = <<>>
    /\ current = 0
    /\ stack = <<>>
    /\ ret = nullptr
    /\ parses = <<>>
    /\ allocated = 0
    /\ reads = {}

\* the code runs to completion: no step that is enabled is postponed forever
FairSpecScan == InitScan /\ [][NextLex]_vars /\ WF_vars(NextLex)

\* ------------------------------------------------------ Parser: actions
Top == stack[Len(stack)]

Running(fn, pc) == stack # <<>> /\ Top.fn = fn /\ Top.pc = pc

WithTop(f) == [stack EXCEPT ![Len(stack)] = f]

\* the running function calls `callee`; `caller` is its frame at the call
Call(caller, callee) == stack' = Append(WithTop(caller), callee)

\* the running function returns val to its caller
Return(val) ==
    /\ stack' = SubSeq(stack, 1, Len(stack) - 1)
    /\ ret' = val

\* an arbitrary token sequence
ArbitraryTokens == \E n \in 0..MaxTokens : tokens \in SeqsOfLen(TokenAlphabet, n)

\* a function header followed by arbitrary tokens, or a written-out sequence
FunctionTokens ==
    \/ \E n \in 0..MaxBody : \E b \in SeqsOfLen(TokenAlphabet, n) :
           tokens = FunctionHeader \o b
    \/ tokens \in SampleSeqs

\* Parser(tokens): the constructor; no Lexer is running
ParserConstructed ==
    /\ current = 0
    /\ stack = <<>>
    /\ ret = nullptr
    /\ parses = <<>>
    /\ allocated = 0
    /\ reads = {}
    /\ input = <<>>
    /\ position = 0
    /\ line = 1
    /\ column = 1
    /\ out = <<>>
    /\ lpc = "ready"
    /\ callStart = 0
    /\ skipped = 0
    /\ starts = <<>>
    /\ calls = <<>>

InitParse == (ArbitraryTokens \/ FunctionTokens) /\ ParserConstructed

\* the Parser is given a token sequence that holds a function
InitFunctions == FunctionTokens /\ ParserConstructed

\* parse() is entered: the root is created
ParseCall ==
    /\ stack = <<>>
    /\ Len(parses) < MaxParses
    /\ stack' = <<Frame("parse", "loop",
                      MakeShared(Node("PROGRAM", <<>>, <<>>),
                                 allocated + 1))>>
    /\ UNCHANGED <<tokens, current, ret, parses>>
    /\ allocated' = allocated + 1
    /\ UNCHANGED reads
    /\ UNCHANGED lexVars

\* parse(): the loop condition holds, parseDeclaration is called
ParseIterate ==
    /\ Running("parse", "loop")
    /\ InRange(tokens, current)
    /\ Call([Top EXCEPT !.pc = "append", !.mark = current],
            Frame("parseDeclaration", "type", nullptr))
    /\ UNCHANGED <<tokens, current, ret, parses>>
    /\ UNCHANGED allocated
    /\ UNCHANGED reads
    /\ UNCHANGED lexVars

\* variant: the result is appended without the test for an empty pointer
ParseAppend_NoNullCheck ==
    /\ Running("parse", "append")
    /\ stack' = WithTop([Top EXCEPT !.pc = "loop", !.node = AddChild(@, ret)])
    /\ UNCHANGED <<tokens, current, ret, parses>>
    /\ UNCHANGED allocated
    /\ UNCHANGED reads
    /\ UNCHANGED lexVars

\* parse(): the declaration, when there is one, becomes a child of the root
ParseAppend ==
    /\ Running("parse", "append")
    /\ stack' = WithTop([Top EXCEPT !.pc = "loop",
                           !.node = IF ret # nullptr
                                      THEN AddChild(@, ret) ELSE @])
    /\ UNCHANGED <<tokens, current, ret, parses>>
    /\ UNCHANGED allocated
    /\ UNCHANGED reads
    /\ UNCHANGED lexVars

\* parse(): the loop condition fails, the root is returned
ParseReturn ==
    /\ Running("parse", "loop")
    /\ ~InRange(tokens, current)
    /\ Return(Top.node)
    /\ parses' = Append(parses, Top.node)
    /\ UNCHANGED <<tokens, current>>
    /\ UNCHANGED allocated
    /\ UNCHANGED reads
    /\ UNCHANGED lexVars

\* parseDeclaration(): the type keyword
DeclType ==
    /\ Running("parseDeclaration", "type")
    /\ IF AtEnd(tokens, current) \/ TokAt(tokens, current).type # "KEYWORD"
         THEN /\ Return(nullptr)
              /\ current' = current
         ELSE /\ current' = current + 1
              /\ stack' = WithTop([Top EXCEPT !.pc = "name"])
              /\ ret' = ret
    /\ UNCHANGED <<tokens, parses>>
    /\ UNCHANGED allocated
    /\ reads' = reads \cup ReadUnlessAtEnd(tokens, current)
    /\ UNCHANGED lexVars

\* parseDeclaration(): the declared name
DeclName ==
    /\ Running("parseDeclaration", "name")
    /\ IF AtEnd(tokens, current) \/ TokAt(tokens, current).type # "IDENTIFIER"
         THEN /\ Return(nullptr)
              /\ current' = current
         ELSE /\ current' = current + 1
              /\ stack' = WithTop([Top EXCEPT !.pc = "paren",
                                     !.name = TokAt(tokens, current).value])
              /\ ret' = ret
    /\ UNCHANGED <<tokens, parses>>
    /\ UNCHANGED allocated
    /\ reads' = reads \cup ReadUnlessAtEnd(tokens, current)
    /\ UNCHANGED lexVars

\* variant: without a `(` the token after the name is consumed as well
DeclParen_ConsumeNext ==
    /\ Running("parseDeclaration", "paren")
    /\ IF InRange(tokens, current) /\ TokAt(tokens, current).value = LPAREN
         THEN /\ current' = current + 1
              /\ stack' = WithTop([Top EXCEPT !.pc = "params",
                     !.node = MakeShared(Node("FUNCTION_DECLARATION",
                                              Top.name, <<>>),
                                         allocated + 1)])
              /\ ret' = ret
              /\ allocated' = allocated + 1
         ELSE /\ Return(nullptr)
              /\ allocated' = allocated
              /\ current' = IF InRange(tokens, current)
                              THEN current + 1 ELSE current
    /\ UNCHANGED <<tokens, parses>>
    /\ reads' = reads \cup ReadWhenInRange(tokens, current)
    /\ UNCHANGED lexVars

\* variant: without a `(` the cursor is put back before the type and the name
DeclParen_Restore ==
    /\ Running("parseDeclaration", "paren")
    /\ IF InRange(tokens, current) /\ TokAt(tokens, current).value = LPAREN
         THEN /\ current' = current + 1
              /\ stack' = WithTop([Top EXCEPT !.pc = "params",
                     !.node = MakeShared(Node("FUNCTION_DECLARATION",
                                              Top.name, <<>>),
                                         allocated + 1)])
              /\ ret' = ret
              /\ allocated' = allocated + 1
         ELSE /\ Return(nullptr)
              /\ allocated' = allocated
              /\ current' = current - 2
    /\ UNCHANGED <<tokens, parses>>
    /\ reads' = reads \cup ReadWhenInRange(tokens, current)
    /\ UNCHANGED lexVars

\* parseDeclaration(): a `(` after the name makes a function declaration
DeclParen ==
    /\ Running("parseDeclaration", "paren")
    /\ IF InRange(tokens, current) /\ TokAt(tokens, current).value = LPAREN
         THEN /\ current' = current + 1
              /\ stack' = WithTop([Top EXCEPT !.pc = "params",
                     !.node = MakeShared(Node("FUNCTION_DECLARATION",
                                              Top.name, <<>>),
                                         allocated + 1)])
              /\ ret' = ret
              /\ allocated' = allocated + 1
         ELSE /\ Return(nullptr)
              /\ allocated' = allocated
              /\ current' = current
    /\ UNCHANGED <<tokens, parses>>
    /\ reads' = reads \cup ReadWhenInRange(tokens, current)
    /\ UNCHANGED lexVars

\* parseDeclaration(): one iteration of the parameter loop
DeclParam ==
    /\ Running("parseDeclaration", "params")
    /\ InRange(tokens, current) /\ TokAt(tokens, current).value # RPAREN
    /\ current' = current + 1
    /\ UNCHANGED <<tokens, stack, ret, parses>>
    /\ UNCHANGED allocated
    /\ reads' = reads \cup ReadWhenInRange(tokens, current)
    /\ UNCHANGED lexVars

\* parseDeclaration(): the parameter loop ends, a `)` is skipped
DeclClose ==
    /\ Running("parseDeclaration", "params")
    /\ ~(InRange(tokens, current) /\ TokAt(tokens, current).value # RPAREN)
    /\ current' = IF InRange(tokens, current)
                       /\ TokAt(tokens, current).value = RPAREN
                    THEN current + 1 ELSE current
    /\ stack' = WithTop([Top EXCEPT !.pc = "body"])
    /\ UNCHANGED <<tokens, ret, parses>>
    /\ UNCHANGED allocated
    /\ reads' = reads \cup ReadWhenInRange(tokens, current)
    /\ UNCHANGED lexVars

\* parseDeclaration(): a `{` starts the body, parseBlock is called
DeclBody ==
    /\ Running("parseDeclaration", "body")
    /\ IF InRange(tokens, current) /\ TokAt(tokens, current).value = LBRACE
         THEN /\ current' = current + 1
              /\ Call([Top EXCEPT !.pc = "attach"],
                      Frame("parseBlock", "loop",
                            MakeShared(Node("BLOCK", <<>>, <<>>),
                                       allocated + 1)))
              /\ ret' = ret
              /\ allocated' = allocated + 1
         ELSE /\ Return(Top.node)
              /\ current' = current
              /\ allocated' = allocated
    /\ UNCHANGED <<tokens, parses>>
    /\ reads' = reads \cup ReadWhenInRange(tokens, current)
    /\ UNCHANGED lexVars

\* parseDeclaration(): the block becomes the child, funcNode is returned
DeclAttach ==
    /\ Running("parseDeclaration", "attach")
    /\ Return(AddChild(Top.node, ret))
    /\ UNCHANGED <<tokens, current, parses>>
    /\ UNCHANGED allocated
    /\ UNCHANGED reads
    /\ UNCHANGED lexVars

\* parseBlock(): the loop condition holds, parseStatement is called
BlockIterate ==
    /\ Running("parseBlock", "loop")
    /\ InRange(tokens, current) /\ TokAt(tokens, current).value # RBRACE
    /\ Call([Top EXCEPT !.pc = "append", !.mark = current],
            Frame("parseStatement", "dispatch", nullptr))
    /\ UNCHANGED <<tokens, current, ret, parses>>
    /\ UNCHANGED allocated
    /\ reads' = reads \cup ReadWhenInRange(tokens, current)
    /\ UNCHANGED lexVars

\* parseBlock(): the statement, when there is one, becomes a child
BlockAppend ==
    /\ Running("parseBlock", "append")
    /\ stack' = WithTop([Top EXCEPT !.pc = "loop",
                           !.node = IF ret # nullptr
                                      THEN AddChild(@, ret) ELSE @])
    /\ UNCHANGED <<tokens, current, ret, parses>>
    /\ UNCHANGED allocated
    /\ UNCHANGED reads
    /\ UNCHANGED lexVars

\* parseBlock(): the loop ends, a `}` is skipped, the block is returned
BlockClose ==
    /\ Running("parseBlock", "loop")
    /\ ~(InRange(tokens, current) /\ TokAt(tokens, current).value # RBRACE)
    /\ current' = IF InRange(tokens, current)
                       /\ TokAt(tokens, current).value = RBRACE
                    THEN current + 1 ELSE current
    /\ Return(Top.node)
    /\ UNCHANGED <<tokens, parses>>
    /\ UNCHANGED allocated
    /\ reads' = reads \cup ReadWhenInRange(tokens, current)
    /\ UNCHANGED lexVars

\* parseStatement(): dispatch on the token at the cursor
StmtDispatch ==
    /\ Running("parseStatement", "dispatch")
    /\ IF AtEnd(tokens, current)
         THEN Return(nullptr)
         ELSE /\ ret' = ret
              /\ IF /\ TokAt(tokens, current).type = "KEYWORD"
                    /\ TokAt(tokens, current).value = KW_if
                   THEN Call([Top EXCEPT !.pc = "tail"],
                             Frame("parseIfStatement", "head", nullptr))
                   ELSE IF /\ TokAt(tokens, current).type = "KEYWORD"
                           /\ TokAt(tokens, current).value = KW_return
                   THEN Call([Top EXCEPT !.pc = "tail"],
                             Frame("parseReturnStatement", "head", nullptr))
                   ELSE Call([Top EXCEPT !.pc = "semi"],
                             Frame("parseExpressionStatement", "head",
                                   nullptr))
    /\ UNCHANGED <<tokens, current, parses>>
    /\ UNCHANGED allocated
    /\ reads' = reads \cup ReadUnlessAtEnd(tokens, current)
    /\ UNCHANGED lexVars

\* parseStatement(): `return parseIfStatement();`, `return
\* parseReturnStatement();`
StmtTail ==
    /\ Running("parseStatement", "tail")
    /\ Return(ret)
    /\ UNCHANGED <<tokens, current, parses>>
    /\ UNCHANGED allocated
    /\ UNCHANGED reads
    /\ UNCHANGED lexVars

\* parseStatement(): a `;` after the expression statement is skipped
StmtSemi ==
    /\ Running("parseStatement", "semi")
    /\ current' = IF InRange(tokens, current)
                       /\ TokAt(tokens, current).value = SEMI
                    THEN current + 1 ELSE current
    /\ Return(ret)
    /\ UNCHANGED <<tokens, parses>>
    /\ UNCHANGED allocated
    /\ reads' = reads \cup ReadWhenInRange(tokens, current)
    /\ UNCHANGED lexVars

\* parseReturnStatement(): `return`, an optional expression, a `;`
ReturnStatement ==
    /\ Running("parseReturnStatement", "head")
    /\ LET from == current + 1
           to == ExprEnd(tokens, from)
           expr == MakeShared(Node("EXPRESSION",
                                   JoinLexemes(Span(tokens, from, to)), <<>>),
                              allocated + 2)
       IN
        /\ current' = SkipIf(tokens, to, SEMI)
        /\ Return(MakeShared(Node("RETURN_STATEMENT", <<>>,
                                  IF to > from THEN <<expr>> ELSE <<>>),
                             allocated + 1))
        /\ allocated' = IF to > from THEN allocated + 2 ELSE allocated + 1
    /\ UNCHANGED <<tokens, parses>>
    /\ UNCHANGED reads
    /\ UNCHANGED lexVars

\* parseExpressionStatement(): the raw token span of a generic expression,
\* then a `;` when there is one
ExpressionStatement ==
    /\ Running("parseExpressionStatement", "head")
    /\ LET from == current
           to == ExprEnd(tokens, from)
       IN
        /\ current' = SkipIf(tokens, to, SEMI)
        /\ Return(IF to > from
                    THEN MakeShared(Node("EXPRESSION_STATEMENT",
                                         JoinLexemes(Span(tokens, from, to)),
                                         <<>>),
                                    allocated + 1)
                    ELSE nullptr)
        /\ allocated' = IF to > from THEN allocated + 1 ELSE allocated
    /\ UNCHANGED <<tokens, parses>>
    /\ UNCHANGED reads
    /\ UNCHANGED lexVars

\* parseIfStatement(): `if`, the parenthesized condition, the then-block
IfHead ==
    /\ Running("parseIfStatement", "head")
    /\ LET open == current + 1
           from == SkipIf(tokens, open, LPAREN)
           to == IF from > open THEN CondEnd(tokens, from) ELSE from
           after == IF from > open THEN SkipIf(tokens, to, RPAREN) ELSE from
           cond == MakeShared(Node("EXPRESSION",
                                   JoinLexemes(Span(tokens, from, to)), <<>>),
                              allocated + 1)
           node == MakeShared(Node("IF_STATEMENT", <<>>, <<cond>>),
                              allocated + 2)
       IN
        IF IsValue(tokens, after, LBRACE)
          THEN /\ current' = after + 1
               /\ Call([Top EXCEPT !.pc = "then", !.node = node],
                       Frame("parseBlock", "loop",
                             MakeShared(Node("BLOCK", <<>>, <<>>),
                                        allocated + 3)))
               /\ allocated' = allocated + 3
          ELSE /\ current' = after
               /\ stack' = WithTop([Top EXCEPT !.pc = "else", !.node = node])
               /\ allocated' = allocated + 2
    /\ UNCHANGED <<tokens, ret, parses>>
    /\ UNCHANGED reads
    /\ UNCHANGED lexVars

\* parseIfStatement(): the then-block becomes the second child
IfThen ==
    /\ Running("parseIfStatement", "then")
    /\ stack' = WithTop([Top EXCEPT !.pc = "else",
                           !.node = AddChild(@, ret)])
    /\ UNCHANGED <<tokens, current, ret, parses>>
    /\ UNCHANGED allocated
    /\ UNCHANGED reads
    /\ UNCHANGED lexVars

\* parseIfStatement(): an `else` is consumed and its block parsed
IfElse ==
    /\ Running("parseIfStatement", "else")
    /\ IF IsType(tokens, current, "KEYWORD")
            /\ IsValue(tokens, current, KW_else)
            /\ IsValue(tokens, current + 1, LBRACE)
         THEN /\ current' = current + 2
              /\ Call([Top EXCEPT !.pc = "elseblock"],
                      Frame("parseBlock", "loop",
                            MakeShared(Node("BLOCK", <<>>, <<>>),
                                       allocated + 1)))
              /\ ret' = ret
              /\ allocated' = allocated + 1
         ELSE /\ current' = IF IsType(tokens, current, "KEYWORD")
                                 /\ IsValue(tokens, current, KW_else)
                              THEN current + 1 ELSE current
              /\ Return(Top.node)
              /\ allocated' = allocated
    /\ UNCHANGED <<tokens, parses>>
    /\ UNCHANGED reads
    /\ UNCHANGED lexVars

\* parseIfStatement(): the else-block becomes the third child
IfElseAttach ==
    /\ Running("parseIfStatement", "elseblock")
    /\ Return(AddChild(Top.node, ret))
    /\ UNCHANGED <<tokens, current, parses>>
    /\ UNCHANGED allocated
    /\ UNCHANGED reads
    /\ UNCHANGED lexVars

NextParse ==
    \/ ParseCall
    \/ ParseIterate
    \/ ParseAppend
    \/ ParseReturn
    \/ DeclType
    \/ DeclName
    \/ DeclParen
    \/ DeclParam
    \/ DeclClose
    \/ DeclBody
    \/ DeclAttach
    \/ BlockIterate
    \/ BlockAppend
    \/ BlockClose
    \/ StmtDispatch
    \/ StmtTail
    \/ StmtSemi
    \/ ReturnStatement
    \/ ExpressionStatement
    \/ IfHead
    \/ IfThen
    \/ IfElse
    \/ IfElseAttach

SpecParse == InitParse /\ [][NextParse]_vars

\* the code runs to completion: no step that is enabled is postponed forever
FairSpecFunctions == InitFunctions /\ [][NextParse]_vars /\ WF_vars(NextParse)
\* ===================================================================
\* Properties of the Lexer
\* ===================================================================
WhitespaceChars == {" ", "\t", "\n", "\r", "\f", "VT"}
Letters == Lower \cup Upper

RECURSIVE SumLexemeLen(_)
SumLexemeLen(toks) ==
    IF toks = <<>> THEN 0 ELSE Len(toks[1].value) + SumLexemeLen(Tail(toks))

RECURSIVE ConcatLexemes(_)
ConcatLexemes(toks) ==
    IF toks = <<>> THEN <<>> ELSE toks[1].value \o ConcatLexemes(Tail(toks))

WithoutWhitespace(s) == SelectSeq(s, LAMBDA c : c \notin WhitespaceChars)

\* the completed calls that ran on a freshly constructed Lexer
FreshCalls == { k \in DOMAIN calls : calls[k].start = 0 }

Covered(s, from, to, toks, skip) ==
    /\ SumLexemeLen(toks) + skip = to - from
    /\ ConcatLexemes(toks) = WithoutWhitespace(SubSeq(s, from + 1, to))

\* C2: tokenize consumes each character exactly once: the lexeme lengths plus
\* the skipped whitespace characters sum to the number of characters scanned,
\* and the lexemes concatenated in order are the scanned text without its
\* whitespace.  Holds after every iteration and for every returned sequence.
C2_TotalCoverage ==
    /\ lpc = "loop" => Covered(input, callStart, position, out, skipped)
    /\ \A k \in DOMAIN calls :
          Covered(calls[k].input, calls[k].start, Len(calls[k].input),
                  calls[k].tokens, calls[k].skipped)

C2_Witness ==
    \E k \in FreshCalls :
        /\ Len(calls[k].tokens) >= 2
        /\ calls[k].skipped >= 1
        /\ \E t \in DOMAIN calls[k].tokens : Len(calls[k].tokens[t].value) >= 2

PunctuationChars == {";", ",", "(", ")", "{", "}", "[", "]"}

\* C3: a character that is neither whitespace, alphabetic, `_` nor a digit
\* becomes one single-character token, Punctuation if it is one of
\* ; , ( ) { } [ ]  and Operator otherwise.
C3_OpPunctKinds ==
    \A k \in DOMAIN out :
        LET c == input[starts[k] + 1] IN
        (c \notin WhitespaceChars \cup Letters \cup Digits \cup {"_"}) =>
            /\ out[k].value = <<c>>
            /\ out[k].type = IF c \in PunctuationChars
                               THEN "PUNCTUATION" ELSE "OPERATOR"

NewlinesBefore(s, p) == Cardinality({ q \in 1..p : s[q] = "\n" })

\* index (from 1) of the last newline among the first p characters, or 0
LastNewline(s, p) ==
    LET nl == { q \in 1..p : s[q] = "\n" } IN
    IF nl = {} THEN 0 ELSE CHOOSE q \in nl : \A r \in nl : r <= q

PositionedAtFirstChar(s, toks, offs) ==
    \A k \in DOMAIN toks :
        /\ toks[k].line = 1 + NewlinesBefore(s, offs[k])
        /\ toks[k].column = 1 + (offs[k] - LastNewline(s, offs[k]))

\* C4: every token's line is 1 plus the number of newlines before its first
\* character and its column is 1 plus the number of characters between the
\* last preceding newline (or the start of input) and its first character.
C4_Positions ==
    /\ lpc = "loop" => PositionedAtFirstChar(input, out, starts)
    /\ \A k \in DOMAIN calls :
          PositionedAtFirstChar(calls[k].input, calls[k].tokens,
                                calls[k].starts)

C4_Witness ==
    \E k \in FreshCalls : \E t \in DOMAIN calls[k].tokens :
        /\ calls[k].tokens[t].line = 2
        /\ calls[k].tokens[t].column = 2
        /\ Len(calls[k].tokens[t].value) >= 2

\* end (offset past the last character) of the maximal run of characters of
\* the set `part` that begins at offset p
RunEnd(s, p, part) ==
    CHOOSE e \in (p + 1)..Len(s) :
        /\ \A q \in (p + 1)..e : s[q] \in part
        /\ e = Len(s) \/ s[e + 1] \notin part

\* the run s[p+1..e] is covered by exactly one token, which starts at p, has
\* the whole run as its lexeme and has the kind Kind(lexeme)
OneTokenForRun(c, p, e, Kind(_)) ==
    LET ks == { k \in DOMAIN c.tokens : c.starts[k] \in p..(e - 1) } IN
    /\ Cardinality(ks) = 1
    /\ \A k \in ks :
          /\ c.starts[k] = p
          /\ c.tokens[k].value = SubSeq(c.input, p + 1, e)
          /\ c.tokens[k].type = Kind(c.tokens[k].value)

KeywordSet == { <<"i","n","t">>, <<"c","h","a","r">>, <<"f","l","o","a","t">>,
                <<"d","o","u","b","l","e">>, <<"v","o","i","d">>,
                <<"i","f">>, <<"e","l","s","e">>, <<"w","h","i","l","e">>,
                <<"f","o","r">>, <<"r","e","t","u","r","n">>,
                <<"p","r","i","n","t","f">> }

IdentPart == Letters \cup Digits \cup {"_"}

IdentRunStarts(s) ==
    { p \in 0..(Len(s) - 1) :
        /\ s[p + 1] \in Letters \cup {"_"}
        /\ p = 0 \/ s[p] \notin IdentPart }

KeywordOrIdentifier(w) == IF w \in KeywordSet THEN "KEYWORD" ELSE "IDENTIFIER"

\* C7: every maximal run of alphabetic/digit/`_` characters that starts with
\* an alphabetic character or `_` is emitted as exactly one token whose lexeme
\* is the whole run, a Keyword iff the whole lexeme is in the keyword set and
\* an Identifier otherwise.
C7_IdentifierRuns ==
    \A k \in FreshCalls : \A p \in IdentRunStarts(calls[k].input) :
        OneTokenForRun(calls[k], p, RunEnd(calls[k].input, p, IdentPart),
                       KeywordOrIdentifier)

C7_Witness ==
    \E k \in FreshCalls : \E u \in DOMAIN calls[k].tokens :
        /\ calls[k].tokens[u].type = "IDENTIFIER"
        /\ calls[k].starts[u] > 0
        /\ \E kw \in KeywordSet :
              /\ Len(kw) < Len(calls[k].tokens[u].value)
              /\ SubSeq(calls[k].tokens[u].value, 1, Len(kw)) = kw

NumberPart == Digits \cup {"."}

NumberRunStarts(s) ==
    { p \in 0..(Len(s) - 1) :
        /\ s[p + 1] \in Digits
        /\ p = 0 \/ s[p] \notin NumberPart }

AlwaysNumber(w) == "NUMBER"

\* C8 as stated: every maximal run of digit and `.` characters that starts
\* with a digit is emitted as exactly one Number token whose lexeme is the
\* whole run.
C8_NumberRuns_Original ==
    \A k \in FreshCalls : \A p \in NumberRunStarts(calls[k].input) :
        OneTokenForRun(calls[k], p, RunEnd(calls[k].input, p, NumberPart),
                       AlwaysNumber)

\* C8 amended: every maximal run of digit and `.` characters that starts with
\* a digit and is not immediately preceded by an alphabetic character or `_`
\* is emitted as exactly one Number token whose lexeme is the whole run,
\* however many `.` it contains.
C8_NumberRuns ==
    \A k \in FreshCalls : \A p \in NumberRunStarts(calls[k].input) :
        (p = 0 \/ calls[k].input[p] \notin Letters \cup {"_"}) =>
            OneTokenForRun(calls[k], p,
                           RunEnd(calls[k].input, p, NumberPart), AlwaysNumber)

C8_Witness ==
    \E k \in FreshCalls : \E t \in DOMAIN calls[k].tokens :
        /\ calls[k].tokens[t].type = "NUMBER"
        /\ Cardinality({ q \in DOMAIN calls[k].tokens[t].value :
                            calls[k].tokens[t].value[q] = "." }) >= 2
        /\ calls[k].starts[t] > 0

KindsLexemes(toks) ==
    [k \in DOMAIN toks |-> <<toks[k].type, toks[k].value>>]

\* the second completed call ran on a fresh Lexer built over the first
\* call's lexemes joined with single spaces
Retokenized ==
    /\ Len(calls) >= 2
    /\ calls[1].start = 0
    /\ calls[2].start = 0
    /\ calls[2].input = JoinLexemes(calls[1].tokens)

\* C9: tokenizing the lexemes of tokenize(input) joined with single spaces
\* yields the same number of tokens with the same kind and lexeme at every
\* index.
C9_Idempotent ==
    Retokenized => KindsLexemes(calls[2].tokens) = KindsLexemes(calls[1].tokens)

C9_Witness ==
    /\ Retokenized
    /\ Len(calls[1].tokens) >= 3
    /\ calls[2].input # calls[1].input
    /\ \E t \in DOMAIN calls[2].tokens : calls[2].tokens[t].type = "NUMBER"

\* C10: the result of tokenize() depends only on the source text, so two
\* calls over the same text return the same sequence, also when the second
\* call is made on the same Lexer.
C10_RepeatableTokenize ==
    \A i, j \in DOMAIN calls :
        calls[i].input = calls[j].input => calls[i].tokens = calls[j].tokens
\* ===================================================================
\* Properties of the Parser
\* ===================================================================

\* C1: each iteration of the top-level loop of parse (one call of
\* parseDeclaration) consumes at least one token: when parseDeclaration has
\* returned to the loop, the cursor is past where the iteration began.
C1_ForwardProgress ==
    Running("parse", "append") => current > Top.mark

\* a token that can stand in the <expression> of a return statement
IsExpressionToken(t) ==
    \/ t.type \in {"IDENTIFIER", "NUMBER", "OPERATOR"}
    \/ t.value \in { <<"(">>, <<")">> }

\* Keyword Identifier ( ) { return <expression> ; }
IsFunctionDefinition(toks) ==
    /\ Len(toks) >= 9
    /\ toks[1].type = "KEYWORD"
    /\ toks[2].type = "IDENTIFIER"
    /\ toks[3].value = <<"(">>
    /\ toks[4].value = <<")">>
    /\ toks[5].value = <<"{">>
    /\ toks[6].type = "KEYWORD" /\ toks[6].value = <<"r","e","t","u","r","n">>
    /\ \A k \in 7..(Len(toks) - 2) : IsExpressionToken(toks[k])
    /\ toks[Len(toks) - 1].value = <<";">>
    /\ toks[Len(toks)].value = <<"}">>

\* Program -> FunctionDeclaration(value = name) -> Block -> [ReturnStatement]
IsFunctionWithReturn(root, name) ==
    /\ root.type = "PROGRAM"
    /\ Len(root.children) = 1
    /\ LET func == root.children[1] IN
        /\ func.type = "FUNCTION_DECLARATION"
        /\ func.value = name
        /\ Len(func.children) = 1
        /\ LET block == func.children[1] IN
            /\ block.type = "BLOCK"
            /\ Len(block.children) = 1
            /\ block.children[1].type = "RETURN_STATEMENT"

\* C5: parsing `Keyword Identifier ( ) { return <expression> ; }` yields a
\* Program whose only child is a FunctionDeclaration named by the Identifier,
\* whose only child is a Block, whose only child is a ReturnStatement; when
\* parse has returned the cursor is at the end of the token sequence.
C5_FunctionDefinition ==
    (IsFunctionDefinition(tokens) /\ parses # <<>>) =>
        /\ IsFunctionWithReturn(parses[1], tokens[2].value)
        /\ current = Len(tokens)

C5_Witness ==
    /\ IsFunctionDefinition(tokens)
    /\ Len(tokens) = 10
    /\ tokens[1].value = <<"i","n","t">>
    /\ Len(parses) = 1
    /\ stack = <<>>

\* the block of a function body is being parsed
InFunctionBody == Len(stack) >= 3 /\ stack[3].fn = "parseBlock"

\* the statement loop of a function body has ended at the end of the token
\* sequence, where no `}` closes the block
UnterminatedBody ==
    /\ InFunctionBody
    /\ Running("parseBlock", "loop")
    /\ Len(stack) = 3
    /\ current >= Len(tokens)

\* parse has returned a Program whose last child is a FunctionDeclaration
\* holding its Block
ReturnedPartialTree ==
    /\ stack = <<>>
    /\ parses # <<>>
    /\ LET root == parses[Len(parses)] IN
        /\ root.type = "PROGRAM"
        /\ root.children # <<>>
        /\ LET func == root.children[Len(root.children)] IN
            /\ func.type = "FUNCTION_DECLARATION"
            /\ Len(func.children) = 1
            /\ func.children[1].type = "BLOCK"

HasType(c, t) == c < Len(tokens) /\ tokens[c + 1].type = t

\* parseDeclaration has just returned to the loop of parse
DeclarationReturned == Running("parse", "append")

\* C12: when parseDeclaration yields no node because the Keyword or the
\* Identifier expectation fails, the cursor after the call equals the cursor
\* before the call.
C12_FailedAttemptRestores ==
    LET before == Top.mark IN
    ( /\ DeclarationReturned
      /\ ret = nullptr
      /\ ~HasType(before, "KEYWORD") \/ ~HasType(before + 1, "IDENTIFIER") )
        => current = before

\* a Keyword and an Identifier start at index c and no `(` follows them
UnsupportedDeclarationAt(c) ==
    /\ HasType(c, "KEYWORD")
    /\ HasType(c + 1, "IDENTIFIER")
    /\ ~(c + 2 < Len(tokens) /\ tokens[c + 3].value = <<"(">>)

\* C13: when a Keyword and an Identifier are not followed by `(`,
\* parseDeclaration yields no node and returns with the cursor exactly two
\* tokens past where it started.
C13_UnsupportedDeclaration ==
    (DeclarationReturned /\ UnsupportedDeclarationAt(Top.mark)) =>
        /\ ret = nullptr
        /\ current = Top.mark + 2

C13_Witness ==
    /\ DeclarationReturned
    /\ UnsupportedDeclarationAt(Top.mark)
    /\ Top.mark + 2 < Len(tokens)
    /\ tokens[Top.mark + 3].type = "KEYWORD"

\* C14: no step of parse, parseDeclaration, parseBlock or parseStatement
\* decreases the cursor.
C14_CursorMonotone == [][current' >= current]_vars

C14_Witness ==
    /\ Len(stack) >= 5
    /\ current >= 8
    /\ Running("parseBlock", "loop")
\* index of the `)` that balances an open parenthesis, scanning from index c
\* with d parentheses open; -1 when there is none
RECURSIVE MatchingClose(_, _, _)
MatchingClose(toks, c, d) ==
    IF c >= Len(toks) THEN -1
    ELSE IF toks[c + 1].value = <<"(">> THEN MatchingClose(toks, c + 1, d + 1)
    ELSE IF toks[c + 1].value = <<")">>
      THEN (IF d = 1 THEN c ELSE MatchingClose(toks, c + 1, d - 1))
    ELSE MatchingClose(toks, c + 1, d)

\* C15: after the `(` of a function declaration the parser skips to the `)`
\* that matches it and consumes it, so the cursor is just past the balancing
\* `)` when the body is looked for, also when the parameter list holds nested
\* parenthesis pairs.
C15_MatchingParenthesis ==
    Running("parseDeclaration", "body") =>
        LET open == stack[1].mark + 2
            close == MatchingClose(tokens, open + 1, 1)
        IN close >= 0 => current = close + 1
TokenKinds == {"KEYWORD", "IDENTIFIER", "NUMBER", "OPERATOR", "PUNCTUATION"}

\* a returned sequence holds only tokens of the five kinds with a lexeme of at
\* least one character, and none at all when the text is whitespace only
OnlyRealTokens(c) ==
    /\ \A k \in DOMAIN c.tokens :
          c.tokens[k].type \in TokenKinds /\ Len(c.tokens[k].value) >= 1
    /\ (\A q \in DOMAIN c.input : c.input[q] \in WhitespaceChars)
          => c.tokens = <<>>

\* C16: tokenize terminates: every iteration of its main loop advances the
\* scan position by at least one character, the position never exceeds the
\* input length, the iterations made are at most the characters scanned, the
\* call returns, and the returned sequence has no end-of-stream token (it is
\* empty for empty or whitespace-only input).
C16_TokenizeTerminates ==
    /\ [][(lpc = "loop" /\ lpc' = "loop") => position' > position]_vars
    /\ [](position <= Len(input))
    /\ [](lpc = "loop" => Len(out) + skipped <= position - callStart)
    /\ [](\A k \in FreshCalls : OnlyRealTokens(calls[k]))
    /\ (lpc = "loop" ~> lpc = "ready")

C16_Witness ==
    \E k \in FreshCalls :
        /\ Len(calls[k].input) >= 2
        /\ \A q \in DOMAIN calls[k].input : calls[k].input[q] \in WhitespaceChars
        /\ calls[k].tokens = <<>>
        /\ lpc = "ready"
\* a node and all the nodes below it, parents first
RECURSIVE NodesOf(_)
RECURSIVE NodesOfAll(_)
NodesOf(n) == <<n>> \o NodesOfAll(n.children)
NodesOfAll(ch) ==
    IF ch = <<>> THEN <<>> ELSE NodesOf(ch[1]) \o NodesOfAll(Tail(ch))

\* the nodes held by the frames k..Len(stack) of the running parse, each with
\* the nodes below it
RECURSIVE FrameNodes(_)
FrameNodes(k) ==
    IF k > Len(stack) THEN <<>>
    ELSE (IF stack[k].node.type = "nullptr" THEN <<>>
          ELSE NodesOf(stack[k].node)) \o FrameNodes(k + 1)

\* the caller on top of the stack is about to take the returned node
ReturnPending ==
    /\ stack # <<>>
    /\ Top.pc \in {"append", "attach", "tail", "semi", "then", "elseblock"}
    /\ ret.type # "nullptr"

\* every node that exists while parse runs: those the frames hold and the
\* one just returned, with everything attached below them
LiveNodes ==
    FrameNodes(1) \o (IF ReturnPending THEN NodesOf(ret) ELSE <<>>)

\* no node occurs at two places of ns, and none occurs below itself
EachNodeOnce(ns) ==
    /\ \A i, j \in DOMAIN ns : i # j => ns[i].id # ns[j].id
    /\ \A i \in DOMAIN ns :
          LET below == NodesOfAll(ns[i].children) IN
          \A j \in DOMAIN below : below[j].id # ns[i].id

\* the only Program node of ns is its first node
OneProgramRoot(ns) ==
    /\ ns # <<>>
    /\ ns[1].type = "PROGRAM"
    /\ \A i \in DOMAIN ns : ns[i].type = "PROGRAM" => i = 1

\* C11: while parse runs and in the tree it returns there is exactly one
\* Program node and it is the root, the node graph is acyclic, and every
\* attached node is in the children list of exactly one parent, exactly once.
C11_TreeShape ==
    /\ stack # <<>> => EachNodeOnce(LiveNodes) /\ OneProgramRoot(LiveNodes)
    /\ \A k \in DOMAIN parses :
          EachNodeOnce(NodesOf(parses[k])) /\ OneProgramRoot(NodesOf(parses[k]))

C11_Witness ==
    /\ stack = <<>>
    /\ Len(parses) = 1
    /\ Len(NodesOf(parses[1])) >= 10
    /\ \E c \in DOMAIN parses[1].children[1].children[1].children :
          parses[1].children[1].children[1].children[c].type = "IF_STATEMENT"

\* no Program or Block node at or below n has an empty pointer as a child
NoNullChild(n) ==
    LET ns == NodesOf(n) IN
    \A k \in DOMAIN ns :
        ns[k].type \in {"PROGRAM", "BLOCK"} =>
            \A c \in DOMAIN ns[k].children :
                ns[k].children[c].type # "nullptr"

\* every child of the root is a FunctionDeclaration named by an Identifier
\* token of the input, with no child or with one Block
FunctionChildren(root) ==
    \A c \in DOMAIN root.children :
        LET func == root.children[c] IN
        /\ func.type = "FUNCTION_DECLARATION"
        /\ Len(func.value) >= 1
        /\ \E k \in DOMAIN tokens :
              tokens[k].type = "IDENTIFIER" /\ tokens[k].value = func.value
        /\ \/ func.children = <<>>
           \/ Len(func.children) = 1 /\ func.children[1].type = "BLOCK"

\* C18: every child of the Program root is a FunctionDeclaration whose value
\* is the non-empty lexeme of an Identifier token of the input and which has
\* no child or exactly one Block child; no empty pointer is ever appended to
\* the root or to a Block.  Holds of the root while it is built and of every
\* returned tree.
C18_RootChildren ==
    /\ \A k \in DOMAIN parses :
          FunctionChildren(parses[k]) /\ NoNullChild(parses[k])
    /\ \A k \in DOMAIN stack :
          stack[k].node.type # "nullptr" => NoNullChild(stack[k].node)
    /\ stack # <<>> => FunctionChildren(stack[1].node)

C18_Witness ==
    /\ stack = <<>>
    /\ Len(parses) = 1
    /\ Len(tokens) = 9
    /\ tokens[3].type = "KEYWORD"
    /\ tokens[8].value = <<";">>
    /\ Len(parses[1].children) = 1
    /\ parses[1].children[1].value = tokens[4].value
    /\ Len(parses[1].children[1].children) = 1
    /\ parses[1].children[1].children[1].children = <<>>

\* C17: at every moment of a parse the cursor lies between 0 and the number of
\* tokens, both included, and each index at which parseDeclaration, parseBlock
\* or parseStatement has read the token vector is below the number of tokens
C17_CursorInRange ==
    /\ 0 <= current
    /\ current <= Len(tokens)
    /\ \A i \in reads : 0 <= i /\ i < Len(tokens)

\* the sequence ends right after the declared name: every token has been
\* read and the test for `(` is about to be made at the end of the sequence
C17_Witness ==
    /\ Running("parseDeclaration", "paren")
    /\ Len(tokens) >= 2
    /\ current = Len(tokens)
    /\ reads = 0 .. (Len(tokens) - 1)

====
